---- MODULE Spec2Model ----
(***************************************************************************)
(* Model of scripts/interpolation.py: the Electron performance table, the  *)
(* interp1d interpolators built from it at import, capacity() and          *)
(* calculate_capacity_est_kg_python().                                     *)
(*                                                                         *)
(* Numbers.  Altitudes (km) and inclinations (degrees) are integers.       *)
(* Payload masses are held in tenths of a kilogram; a float produced by    *)
(* the interpolation is held exactly as an integer number of               *)
(* 1/(10*Unit) kg, where Unit is a common multiple of every interval       *)
(* width of the table, so that every division of the interpolation         *)
(* formula is exact.  Float rounding is not modelled.                      *)
(***************************************************************************)
EXTENDS Integers, Sequences, FiniteSets, TLC

VARIABLES
    orbital_altitude_km,  \* the altitude grid (module global)
    capacity_est_kg,      \* inclination key -> payload curve (module global)
    alt_interp,           \* _alt_interp: inclination key -> interp1d object
    pc,                   \* "import" | "ready" | "import_failed"
    ncalls,               \* number of calls made so far
    call,                 \* last function called: "none" | "capacity" | "safe"
    args,                 \* arguments of the last call
    out                   \* outcome of the last call

vars == <<orbital_altitude_km, capacity_est_kg, alt_interp, pc, ncalls, call,
          args, out>>

-----------------------------------------------------------------------------
(* Bounds of the family of small tables and of the runs.                   *)
MaxMass == 1      \* small curves take their masses from 0..MaxMass
MaxEditLen == 2   \* points of an edited grid or curve
MaxCalls == 2     \* calls made on one imported module

-----------------------------------------------------------------------------
(* RAW DATA: the reference table of the source, masses in tenths of a kg.  *)
RefGrid ==
    <<400, 450, 500, 550, 600, 650, 700, 750, 800, 850,
      900, 950, 1000, 1050, 1100, 1150, 1200>>

RefCurves ==
    40 :> <<2700, 2666, 2638, 2599, 2574, 2540, 2513, 2470, 2433,
            2393, 2357, 2319, 2283, 2245, 2210, 2174, 2140>>
 @@ 60 :> <<2490, 2459, 2430, 2400, 2342, 2324, 2307, 2277, 2244,
            2208, 2177, 2144, 2114, 2075, 2042, 1997, 1973>>
 @@ 80 :> <<2244, 2212, 2187, 2161, 2137, 2104, 2080, 2044, 2017,
            1979, 1948, 1913, 1884, 1849, 1817, 1783, 1757>>
 @@ 100 :> <<2037, 2008, 1984, 1953, 1929, 1895, 1870, 1834, 1803,
             1770, 1741, 1707, 1680, 1644, 1616, 1585, 1556>>

-----------------------------------------------------------------------------
(* Arithmetic helpers.                                                     *)
RECURSIVE GCD(_, _)
GCD(a, b) == IF b = 0 THEN a ELSE GCD(b, a % b)

LCM(a, b) == (a * b) \div GCD(a, b)

Min(S) == CHOOSE m \in S : \A n \in S : m <= n
Max(S) == CHOOSE m \in S : \A n \in S : n <= m

RECURSIVE LCMSet(_)
LCMSet(S) ==
    IF S = {} THEN 1
    ELSE LET d == CHOOSE e \in S : TRUE IN LCM(d, LCMSet(S \ {d}))

(* sorted(...): the elements of a finite set of integers, ascending.       *)
RECURSIVE sorted(_)
sorted(S) ==
    IF S = {} THEN <<>> ELSE <<Min(S)>> \o sorted(S \ {Min(S)})

(* Positive gaps between the distinct values of a set.                     *)
Gaps(S) ==
    LET s == sorted(S) IN {s[i + 1] - s[i] : i \in 1..(Len(s) - 1)}

Range(f) == {f[i] : i \in DOMAIN f}

(* The fixed-point unit of a table: a float f is held as f * 10 * Unit.    *)
Unit(grid, curves) == LCMSet(Gaps(Range(grid))) * LCMSet(Gaps(DOMAIN curves))

-----------------------------------------------------------------------------
(* Outcomes of a call: a float, None, or a raised exception.               *)
Float(v, d) == [kind |-> "float", val |-> v, msg |-> "", divs |-> d]
NoneValue == [kind |-> "None", val |-> 0, msg |-> "", divs |-> {}]
Raise(k, m) == [kind |-> k, val |-> 0, msg |-> m, divs |-> {}]

(* np.array(mass, dtype=float): tenths of a kg to the fixed-point unit.    *)
ToFloat(mass, unit) == [i \in DOMAIN mass |-> mass[i] * unit]

(* np.argsort(x, kind="mergesort"): the stable ascending permutation.      *)
RECURSIVE argsort_rest(_, _)
argsort_rest(x, I) ==
    IF I = {} THEN <<>>
    ELSE LET i == CHOOSE a \in I : \A b \in I :
                      x[a] < x[b] \/ (x[a] = x[b] /\ a <= b)
         IN <<i>> \o argsort_rest(x, I \ {i})

argsort(x) == argsort_rest(x, DOMAIN x)

(* interp1d(x, y, kind="linear", bounds_error=True): the constructor.      *)
(* It rejects arrays of different length and arrays with fewer than one    *)
(* entry (the minimum of the linear kind), and sorts x (and y with it).    *)
interp1d(x, y) ==
    IF Len(x) # Len(y)
    THEN Raise("ValueError", "x and y arrays must be equal in length")
    ELSE IF Len(x) < 1
    THEN Raise("ValueError", "x and y arrays must have at least 1 entries")
    ELSE LET ind == argsort(x)
         IN [kind |-> "interp1d",
             x |-> [i \in DOMAIN x |-> x[ind[i]]],
             y |-> [i \in DOMAIN y |-> y[ind[i]]]]

(* numpy.interp with the stored value of the wrong end of the interval on  *)
(* an exact match.                                                         *)
np_interp_wrong_end(x, xp, fp) ==
    LET j == Max({i \in DOMAIN xp : xp[i] <= x})
    IN  IF j = Len(xp) THEN Float(fp[j], {})
        ELSE IF xp[j] = x THEN Float(fp[j + 1], {})
        ELSE Float(fp[j] + ((x - xp[j]) * (fp[j + 1] - fp[j]))
                               \div (xp[j + 1] - xp[j]),
                   {xp[j + 1] - xp[j]})

(* numpy.interp as kind="previous": the value of the last point not above  *)
(* x, no interpolation.                                                    *)
np_interp_previous(x, xp, fp) ==
    LET j == Max({i \in DOMAIN xp : xp[i] <= x})
    IN  Float(fp[j], {})

(* numpy.interp with the slope applied from the wrong end of the interval. *)
np_interp_swapped(x, xp, fp) ==
    LET j == Max({i \in DOMAIN xp : xp[i] <= x})
    IN  IF j = Len(xp) THEN Float(fp[j], {})
        ELSE IF xp[j] = x THEN Float(fp[j], {})
        ELSE Float(fp[j + 1] + ((x - xp[j]) * (fp[j] - fp[j + 1]))
                                   \div (xp[j + 1] - xp[j]),
                   {xp[j + 1] - xp[j]})

(* numpy.interp on one point x inside [xp[1], xp[Len(xp)]]: j is the last  *)
(* index with xp[j] <= x; the last point and an exact match return the     *)
(* stored value, anything else interpolates between j and j + 1.           *)
np_interp(x, xp, fp) ==
    LET j == Max({i \in DOMAIN xp : xp[i] <= x})
    IN  IF j = Len(xp) THEN Float(fp[j], {})
        ELSE IF xp[j] = x THEN Float(fp[j], {})
        ELSE Float(fp[j] + ((x - xp[j]) * (fp[j + 1] - fp[j]))
                               \div (xp[j + 1] - xp[j]),
                   {xp[j + 1] - xp[j]})

(* interp1d.__call__ with bounds_error=False and the end values as fill.   *)
interp1d_call_clamped(f, x_new) ==
    IF x_new < f.x[1] THEN Float(f.y[1], {})
    ELSE IF x_new > f.x[Len(f.x)] THEN Float(f.y[Len(f.x)], {})
    ELSE np_interp(x_new, f.x, f.y)

(* interp1d.__call__ rejecting the end points as well.                     *)
interp1d_call_strict(f, x_new) ==
    IF x_new <= f.x[1] \/ x_new >= f.x[Len(f.x)]
    THEN Raise("ValueError", "out of bounds")
    ELSE np_interp(x_new, f.x, f.y)

(* interp1d.__call__ with fill_value="extrapolate": the line of the first  *)
(* or the last interval continued outside the grid.                        *)
interp1d_call_extrapolate(f, x_new) ==
    LET n == Len(f.x)
    IN  IF n >= 2 /\ x_new < f.x[1]
        THEN Float(f.y[1] + ((x_new - f.x[1]) * (f.y[2] - f.y[1]))
                                \div (f.x[2] - f.x[1]), {f.x[2] - f.x[1]})
        ELSE IF n >= 2 /\ x_new > f.x[n]
        THEN Float(f.y[n] + ((x_new - f.x[n]) * (f.y[n] - f.y[n - 1]))
                                \div (f.x[n] - f.x[n - 1]), {f.x[n] - f.x[n - 1]})
        ELSE np_interp(x_new, f.x, f.y)

(* interp1d.__call__ with bounds_error=True.                               *)
interp1d_call(f, x_new) ==
    IF x_new < f.x[1] \/ x_new > f.x[Len(f.x)]
    THEN Raise("ValueError", "out of bounds")
    ELSE np_interp(x_new, f.x, f.y)

(* {inc: interp1d(orbital_altitude_km, mass, ...)}: the outcome of every   *)
(* constructor call of the comprehension.                                  *)
build_alt_interp(grid, curves) ==
    LET unit == Unit(grid, curves)
    IN  [inc \in DOMAIN curves |->
            interp1d(grid, ToFloat(curves[inc], unit))]

(* capacity(alt_km, inc_deg).                                              *)
capacity(alt_km, inc_deg) ==
    LET inclinations == sorted(DOMAIN capacity_est_kg)
        stage1 == [i \in DOMAIN inclinations |->
                      interp1d_call(alt_interp[inclinations[i]], alt_km)]
        failed == {i \in DOMAIN inclinations : stage1[i].kind # "float"}
    IN  IF failed # {} THEN stage1[Min(failed)]
        ELSE LET payloads_alt == [i \in DOMAIN inclinations |-> stage1[i].val]
                 interp_inc == interp1d(inclinations, payloads_alt)
             IN  IF interp_inc.kind # "interp1d" THEN interp_inc
                 ELSE LET r == interp1d_call(interp_inc, inc_deg)
                      IN  IF r.kind # "float" THEN r
                          ELSE Float(r.val,
                                     r.divs \cup UNION {stage1[i].divs :
                                                  i \in DOMAIN inclinations})

(* The wrapper written as "capacity(...) or None": a result of 0.0 is      *)
(* falsy and becomes None.                                                 *)
calculate_capacity_falsy_zero(alt_km, inc_deg) ==
    LET r == capacity(alt_km, inc_deg)
    IN  IF r.kind = "ValueError" \/ (r.kind = "float" /\ r.val = 0)
        THEN NoneValue ELSE r

(* calculate_capacity_est_kg_python(alt_km, inc_deg): except ValueError.   *)
calculate_capacity_est_kg_python(alt_km, inc_deg) ==
    LET r == capacity(alt_km, inc_deg)
    IN  IF r.kind = "ValueError" THEN NoneValue ELSE r

-----------------------------------------------------------------------------
(* The tables the model is run on.                                         *)
StrictlyAscending(g) == \A i \in 1..(Len(g) - 1) : g[i] < g[i + 1]

(* A table that meets the data model: an ascending grid of at least two    *)
(* points, at least two keys, every curve as long as the grid.             *)
WellFormed(grid, curves) ==
    /\ Len(grid) >= 2
    /\ StrictlyAscending(grid)
    /\ Cardinality(DOMAIN curves) >= 2
    /\ \A inc \in DOMAIN curves : Len(curves[inc]) = Len(grid)

(* The altitudes of the small grids: even, so that the midpoint of two     *)
(* grid points is a query, with gaps of two widths.                        *)
SmallAlts == {2, 4, 6}

(* The smallest tables of the data model: two grid points, two keys.       *)
SmallGrids == {g \in [1..2 -> SmallAlts] : StrictlyAscending(g)}

SmallKeys == {2, 4}

(* Edited tables, well formed or not: any grid of up to MaxEditLen points  *)
(* in any order, any of the small keys, curves of any length up to         *)
(* MaxEditLen.                                                             *)
AnyGrids == UNION {[1..n -> SmallAlts] : n \in 0..MaxEditLen}

AnyKeySets == SUBSET SmallKeys

AnyCurve == UNION {[1..n -> 0..MaxMass] : n \in 0..MaxEditLen}

(* The queries put to a table: every integer from one below its smallest   *)
(* to one above its largest altitude (key); grid points, midpoints and     *)
(* outside points of the reference table.                                  *)
Around(S) == IF S = {} THEN {0} ELSE (Min(S) - 1)..(Max(S) + 1)

AltQueries ==
    IF orbital_altitude_km = RefGrid
    THEN {300, 350, 375, 400, 425, 450, 700, 725, 750,
          1150, 1175, 1200, 1225, 1250}
    ELSE Around(Range(orbital_altitude_km))

IncQueries ==
    IF orbital_altitude_km = RefGrid
    THEN {30, 40, 50, 60, 70, 80, 90, 100, 110, 150}
    ELSE Around(DOMAIN capacity_est_kg)

-----------------------------------------------------------------------------
(* The state machine.                                                      *)
InitCommon ==
    /\ alt_interp = <<>>
    /\ pc = "import"
    /\ ncalls = 0
    /\ call = "none"
    /\ args = <<0, 0>>
    /\ out = NoneValue

(* The reference table or a small well-formed one.                         *)
Init ==
    /\ \/ /\ orbital_altitude_km = RefGrid
          /\ capacity_est_kg = RefCurves
       \/ /\ orbital_altitude_km \in SmallGrids
          /\ capacity_est_kg \in
                [SmallKeys -> [1..Len(orbital_altitude_km) -> 0..MaxMass]]
    /\ InitCommon

(* Any edited table.                                                       *)
InitBuild ==
    /\ orbital_altitude_km \in AnyGrids
    /\ \E K \in AnyKeySets : capacity_est_kg \in [K -> AnyCurve]
    /\ InitCommon

(* Module import, lines 49-52: build one interpolator per curve; the       *)
(* first constructor that raises aborts the import.                        *)
Import ==
    /\ pc = "import"
    /\ LET made == build_alt_interp(orbital_altitude_km, capacity_est_kg)
           bad == {inc \in DOMAIN capacity_est_kg : made[inc].kind # "interp1d"}
       IN  IF bad # {}
           THEN /\ pc' = "import_failed"
                /\ out' = made[Min(bad)]
                /\ alt_interp' = alt_interp
           ELSE /\ pc' = "ready"
                /\ out' = out
                /\ alt_interp' = made
    /\ UNCHANGED <<orbital_altitude_km, capacity_est_kg, ncalls, call, args>>

(* capacity() writing into the arrays of the interpolators it reads: the   *)
(* first value of every curve is raised on each call.                      *)
CallCapacityClobbering ==
    /\ pc = "ready"
    /\ ncalls < MaxCalls
    /\ ncalls' = ncalls + 1
    /\ \E alt_km \in AltQueries, inc_deg \in IncQueries :
          /\ call' = "capacity"
          /\ args' = <<alt_km, inc_deg>>
          /\ out' = capacity(alt_km, inc_deg)
    /\ alt_interp' = [inc \in DOMAIN alt_interp |->
                        [alt_interp[inc] EXCEPT !.y[1] = @ + 1]]
    /\ UNCHANGED <<orbital_altitude_km, capacity_est_kg, pc>>

CallCapacity ==
    /\ pc = "ready"
    /\ ncalls < MaxCalls
    /\ ncalls' = ncalls + 1
    /\ \E alt_km \in AltQueries, inc_deg \in IncQueries :
          /\ call' = "capacity"
          /\ args' = <<alt_km, inc_deg>>
          /\ out' = capacity(alt_km, inc_deg)
    /\ UNCHANGED <<orbital_altitude_km, capacity_est_kg, alt_interp, pc>>

CallSafe ==
    /\ pc = "ready"
    /\ ncalls < MaxCalls
    /\ ncalls' = ncalls + 1
    /\ \E alt_km \in AltQueries, inc_deg \in IncQueries :
          /\ call' = "safe"
          /\ args' = <<alt_km, inc_deg>>
          /\ out' = calculate_capacity_est_kg_python(alt_km, inc_deg)
    /\ UNCHANGED <<orbital_altitude_km, capacity_est_kg, alt_interp, pc>>

Next == Import \/ CallCapacity \/ CallSafe

Spec == Init /\ [][Next]_vars

SpecBuild == InitBuild /\ [][Next]_vars

-----------------------------------------------------------------------------
(* Vocabulary of the properties.                                           *)
Keys == DOMAIN capacity_est_kg
Alts == Range(orbital_altitude_km)
U == Unit(orbital_altitude_km, capacity_est_kg)

IsRef == orbital_altitude_km = RefGrid /\ capacity_est_kg = RefCurves

Called(f) == pc = "ready" /\ call = f

AltInside(a) == Min(Alts) <= a /\ a <= Max(Alts)
IncInside(i) == Min(Keys) <= i /\ i <= Max(Keys)
InDomain(q) == AltInside(q[1]) /\ IncInside(q[2])

OutOfBounds == Raise("ValueError", "out of bounds")

(* The index of a grid altitude.                                           *)
IndexOf(a) == CHOOSE i \in DOMAIN orbital_altitude_km : orbital_altitude_km[i] = a

(* The points of an ascending sequence that bracket x: the last one not    *)
(* above x and the first one not below it (the end point when x is         *)
(* outside).                                                               *)
Lower(xs, x) ==
    LET S == {i \in DOMAIN xs : xs[i] <= x} IN IF S = {} THEN 1 ELSE Max(S)
Upper(xs, x) ==
    LET S == {i \in DOMAIN xs : xs[i] >= x} IN IF S = {} THEN Len(xs) ELSE Min(S)

(* The reference interpolation y0 + (x - x0) * (y1 - y0) / (x1 - x0) on    *)
(* the first interval [xs[i], xs[i + 1]] that contains x.                  *)
Linear(xs, ys, x) ==
    LET i == Min({k \in 1..(Len(xs) - 1) : x <= xs[k + 1]})
    IN  ys[i] + ((x - xs[i]) * (ys[i + 1] - ys[i])) \div (xs[i + 1] - xs[i])

(* v is on the straight line through the two points that bracket x.        *)
OnLine(xs, ys, x, v) ==
    \E i \in 1..(Len(xs) - 1) :
        /\ xs[i] <= x /\ x <= xs[i + 1]
        /\ (v - ys[i]) * (xs[i + 1] - xs[i]) = (x - xs[i]) * (ys[i + 1] - ys[i])

(* Stage 1 of the reference: every key's curve at the altitude, in key     *)
(* order.                                                                  *)
Stage1(alt) ==
    LET ks == sorted(Keys)
    IN  [n \in DOMAIN ks |->
            Linear(orbital_altitude_km, ToFloat(capacity_est_kg[ks[n]], U), alt)]

TwoStage(alt, inc) == Linear(sorted(Keys), Stage1(alt), inc)

NonIncreasing(c) == \A i \in 1..(Len(c) - 1) : c[i] >= c[i + 1]

ResultOf(f, q) ==
    IF f = "capacity" THEN capacity(q[1], q[2])
    ELSE calculate_capacity_est_kg_python(q[1], q[2])

-----------------------------------------------------------------------------
(* C1. Bounds rejection: whenever the altitude is strictly below the       *)
(* smallest or strictly above the largest grid altitude, or the            *)
(* inclination strictly outside the key range, capacity raises the         *)
(* out-of-bounds error and calculate_capacity_est_kg_python returns None,  *)
(* whichever coordinate is outside and even when the other one is a grid   *)
(* point or a key.                                                         *)
C1_BoundsRejection ==
    /\ (Called("capacity") /\ ~InDomain(args)) => out = OutOfBounds
    /\ (Called("safe") /\ ~InDomain(args)) => out = NoneValue

(* capacity(400, 150) on the reference table raised out of bounds: the     *)
(* altitude is a grid point, the inclination is above the largest key.     *)
C1_Witness ==
    /\ IsRef /\ Called("capacity") /\ args = <<400, 150>>
    /\ out = OutOfBounds

(* C2. Exact grid match: at a grid altitude and a configured key capacity  *)
(* returns the stored value of that curve at that grid index, and no       *)
(* successful query divides by a zero-width interval.                      *)
C2_ExactGridMatch ==
    /\ (Called("capacity") /\ args[1] \in Alts /\ args[2] \in Keys) =>
          /\ out.kind = "float"
          /\ out.val = capacity_est_kg[args[2]][IndexOf(args[1])] * U
    /\ (Called("capacity") /\ IsRef /\ args = <<400, 40>>) => out.val = 2700 * U
    /\ (Called("capacity") /\ IsRef /\ args = <<1200, 100>>) => out.val = 1556 * U
    /\ Called("capacity") => 0 \notin out.divs

(* capacity(1200, 100) on the reference table returned 155.6.              *)
C2_Witness ==
    /\ IsRef /\ Called("capacity") /\ args = <<1200, 100>>
    /\ out.kind = "float" /\ out.val = 1556 * U

(* C3. Two-stage interpolation: every in-domain result of capacity is the  *)
(* piecewise-linear interpolation across the keys, in ascending order, of  *)
(* the piecewise-linear interpolations of every key's curve at the         *)
(* altitude; capacity(725, 40) = 249.15 and capacity(400, 70) = 236.7 on   *)
(* the reference table (U = 1000 there, a float is held as kg * 10 * U).   *)
C3_TwoStage ==
    /\ (Called("capacity") /\ InDomain(args)) =>
          /\ out.kind = "float"
          /\ out.val = TwoStage(args[1], args[2])
          /\ OnLine(sorted(Keys), Stage1(args[1]), args[2], out.val)
          /\ \A n \in 1..Cardinality(Keys) :
                OnLine(orbital_altitude_km,
                       ToFloat(capacity_est_kg[sorted(Keys)[n]], U),
                       args[1], Stage1(args[1])[n])
    /\ (Called("capacity") /\ IsRef /\ args = <<725, 40>>) => out.val = 2491500
    /\ (Called("capacity") /\ IsRef /\ args = <<400, 70>>) => out.val = 2367000

(* capacity(725, 40) on the reference table returned 249.15, after one     *)
(* division by the 50 km interval.                                         *)
C3_Witness ==
    /\ IsRef /\ Called("capacity") /\ args = <<725, 40>>
    /\ out.kind = "float" /\ out.val = 2491500 /\ out.divs = {50}

(* C4. Inclusive bounds: a query at the smallest or the largest grid       *)
(* altitude with the inclination inside the key range, or at the smallest  *)
(* or the largest key with the altitude inside the grid, succeeds, and     *)
(* calculate_capacity_est_kg_python returns a value for it.                *)
C4_InclusiveBounds ==
    (/\ Called("capacity") \/ Called("safe")
     /\ InDomain(args)
     /\ \/ args[1] \in {Min(Alts), Max(Alts)}
        \/ args[2] \in {Min(Keys), Max(Keys)})
    => out.kind = "float"

(* A query at the largest altitude and the smallest key, answered by the   *)
(* wrapper with a value.                                                   *)
C4_Witness ==
    /\ Called("safe") /\ args = <<Max(Alts), Min(Keys)>>
    /\ out.kind = "float"

(* C5. Only the out-of-bounds error is absorbed: whenever capacity fails   *)
(* with any other error, calculate_capacity_est_kg_python raises that      *)
(* error and does not return None.                                         *)
C5_OnlyBoundsAbsorbed ==
    Called("safe") =>
        LET r == capacity(args[1], args[2])
        IN  (r.kind # "float" /\ r # OutOfBounds) => out = r

(* C6. Construction validation: the import fails whenever the grid is not  *)
(* strictly ascending, has fewer than two points, a curve's length differs *)
(* from the grid's, or there are fewer than two keys; no such table is     *)
(* ever queried.                                                           *)
C6_ConstructionValidation ==
    (pc # "import" /\ ~WellFormed(orbital_altitude_km, capacity_est_kg))
    => (pc = "import_failed" /\ out.kind = "ValueError")

(* C7. Monotonic interpolation: at a key whose curve is non-increasing     *)
(* across the grid, the result at an altitude is never above the result    *)
(* at any smaller altitude of the grid's span.                             *)
C7_Monotonic ==
    (/\ Called("capacity")
     /\ args[2] \in Keys
     /\ AltInside(args[1])
     /\ NonIncreasing(capacity_est_kg[args[2]]))
    => /\ out.kind = "float"
       /\ \A a1 \in AltQueries :
             (AltInside(a1) /\ a1 < args[1]) =>
                 LET r1 == capacity(a1, args[2])
                 IN  r1.kind = "float" /\ r1.val >= out.val

(* A query strictly inside an interval of a curve that falls across the    *)
(* grid, with a result strictly below the one at the smallest altitude.    *)
C7_Witness ==
    /\ Called("capacity") /\ args[2] \in Keys /\ AltInside(args[1])
    /\ args[1] \notin Alts
    /\ NonIncreasing(capacity_est_kg[args[2]])
    /\ out.kind = "float"
    /\ out.val < capacity(Min(Alts), args[2]).val

(* C8. The wrapper agrees with capacity: where capacity returns a value    *)
(* the wrapper returns the same value, it returns None only where          *)
(* capacity raises the out-of-bounds error, and it never raises that       *)
(* error itself.                                                           *)
C8_WrapperAgrees ==
    Called("safe") =>
        LET r == capacity(args[1], args[2])
        IN  /\ r.kind = "float" => out = r
            /\ out = NoneValue => r = OutOfBounds
            /\ out.kind # "ValueError"

(* The wrapper returned the value 0.0 that capacity computes for the       *)
(* query.                                                                  *)
C8_Witness ==
    /\ Called("safe") /\ InDomain(args)
    /\ out.kind = "float" /\ out.val = 0
    /\ out = capacity(args[1], args[2])

(* C9. Queries are side-effect free: no call changes the grid, the keys    *)
(* or a curve; the interpolators are always those a fresh import builds    *)
(* from the table, and the outcome of every call is the one the same call  *)
(* gives on that freshly imported state, whatever calls came before.       *)
C9_Fresh ==
    pc = "ready" =>
        /\ alt_interp = build_alt_interp(orbital_altitude_km, capacity_est_kg)
        /\ call # "none" => out = ResultOf(call, args)

C9_Frame ==
    pc = "ready" =>
        /\ orbital_altitude_km' = orbital_altitude_km
        /\ capacity_est_kg' = capacity_est_kg
        /\ alt_interp' = alt_interp

C9_SideEffectFree == [][C9_Frame]_vars /\ []C9_Fresh

(* The second call of a run, a successful one, made on the interpolators   *)
(* of a fresh import.                                                      *)
C9_Witness ==
    /\ Called("capacity") /\ ncalls = 2
    /\ InDomain(args) /\ out.kind = "float"
    /\ alt_interp = build_alt_interp(orbital_altitude_km, capacity_est_kg)

(* C10. No extrapolation: every result of capacity lies between the        *)
(* smallest and the largest of the tabulated values at the grid points     *)
(* and keys that bracket the query, so between the smallest and the        *)
(* largest value of the table, and is not negative.                        *)
Corners(q) ==
    LET ks == sorted(Keys)
        g == orbital_altitude_km
    IN  {capacity_est_kg[ks[n]][i] * U :
            n \in {Lower(ks, q[2]), Upper(ks, q[2])},
            i \in {Lower(g, q[1]), Upper(g, q[1])}}

TableValues ==
    {capacity_est_kg[k][i] * U : k \in Keys, i \in DOMAIN orbital_altitude_km}

C10_NoExtrapolation ==
    (Called("capacity") /\ out.kind = "float") =>
        /\ Min(Corners(args)) <= out.val /\ out.val <= Max(Corners(args))
        /\ Min(TableValues) <= out.val /\ out.val <= Max(TableValues)
        /\ out.val >= 0

(* A query off the grid and off the keys whose four corners differ and     *)
(* whose result lies strictly between the smallest and the largest.        *)
C10_Witness ==
    /\ Called("capacity") /\ out.kind = "float"
    /\ args[1] \notin Alts /\ args[2] \notin Keys
    /\ Min(Corners(args)) < out.val /\ out.val < Max(Corners(args))

====
